---- MODULE Spec2Model ----
(***************************************************************************)
(* Model of the Soroban perpetuals contract (contracts/src/lib.rs).        *)
(*                                                                         *)
(* The state is the contract's storage (instance and persistent entries)   *)
(* plus the token balance the contract holds in custody and the outcome    *)
(* of the last invocation.  Every public function is one action.  A        *)
(* failed invocation (contract error, host trap, failed authorization or   *)
(* failed token transfer) is rolled back by the host: it leaves the        *)
(* storage as it was, and only the recorded outcome changes.               *)
(***************************************************************************)
EXTENDS Integers, Sequences, FiniteSets

\* ------------------------------------------------------------------------
\* Bounds and input sets
\* ------------------------------------------------------------------------
MaxCalls == 3
MaxValue == 1000
MaxMove == 2

Traders == {"t1", "t2"}
Principals == Traders \cup {"l1"}
Values == {-1000, 0, 1000}
Prices == {903, 1000, 49000, 50000}
Leverages == {10}
InitLeverages == {5, 10}
Tokens == {"pusd", "pusd2"}

\* Inputs of the small-trade specification
OpenValues == {0, 1, 99, 100, 101, 200}

\* Inputs of the settlement specification
SettleValues == {1000, 2000, 10000, 12000}
SettleOpenPrices == {1000, 50000}
SettleLeverages == {1, 2, 10}
SettlePrices == {903, 1000, 45000, 49000, 50000, 55000}

\* ------------------------------------------------------------------------
\* Program constants
\* ------------------------------------------------------------------------
PositionOpen == 1
PositionNotOpen == 2
ZeroValue == 3
AboveMargin == 4
InitialMarginReq == 300

NoPosition == [value |-> 0, open_price |-> 0, close_price |-> 0, long |-> FALSE, open |-> FALSE]
NoTransfer == [to |-> "none", amount |-> 0]
Contract == "contract"

VARIABLES
  positions,      \* POSITIONS map: trader -> Position (NoPosition when absent)
  positions_set,  \* whether the POSITIONS key has ever been written
  total_long,     \* LONG_POS
  total_short,    \* SHORT_POS
  history,        \* TRADE_HISTORY
  price,          \* PRICE as read with unwrap_or(0)
  leverage,       \* LEVERAGE
  margin_req,     \* MARGIN_REQ
  token,          \* PUSD: the token the contract settles in
  custody,        \* balance of the contract in the configured token
  idle,           \* balance of the contract in the other token
  calls,          \* number of invocations that have written the storage
  result,         \* outcome of the last invocation
  transfer        \* token transfer made by the last invocation

vars == <<positions, positions_set, total_long, total_short, history, price,
          leverage, margin_req, token, custody, idle, calls, result,
          transfer>>

storage == <<positions, positions_set, total_long, total_short, history,
             leverage, margin_req, token>>

\* ------------------------------------------------------------------------
\* Arithmetic: i128 division truncates toward zero
\* ------------------------------------------------------------------------
Abs(a) == IF a < 0 THEN -a ELSE a

Div(a, b) ==
  LET q == Abs(a) \div Abs(b)
  IN IF (a < 0) # (b < 0) THEN -q ELSE q

\* ------------------------------------------------------------------------
\* Outcomes of an invocation
\* ------------------------------------------------------------------------
Ok(ret) == [kind |-> "ok", code |-> 0, ret |-> ret]
ContractErr(code) == [kind |-> "contract_error", code |-> code, ret |-> 0]
AuthFailed == [kind |-> "auth", code |-> 0, ret |-> 0]
TransferFailed == [kind |-> "transfer", code |-> 0, ret |-> 0]
Trap == [kind |-> "trap", code |-> 0, ret |-> 0]

\* The host discards every write of a failed invocation.
Abort(outcome) ==
  /\ result' = outcome
  /\ transfer' = NoTransfer
  /\ UNCHANGED <<storage, price, custody, idle, calls>>

Position(value, open_price, close_price, long) ==
  [value |-> value, open_price |-> open_price, close_price |-> close_price,
   long |-> long, open |-> TRUE]

has_position(user) == positions[user].open

\* ------------------------------------------------------------------------
\* Token collaborator
\* ------------------------------------------------------------------------
\* transfer(contract -> to, amount) succeeds only for a non-negative amount
\* the contract holds.
transfer_ok(amount) == amount >= 0 /\ amount <= custody

\* ------------------------------------------------------------------------
\* calculate_fee
\* ------------------------------------------------------------------------
calculate_fee_strictness_mutant(value, long) ==
  IF (total_long >= total_short /\ long) \/ (total_short >= total_long /\ ~long)
  THEN Div(value, 100)
  ELSE 0

calculate_fee(value, long) ==
  LET fee0 == 0
      fee1 == IF total_long > total_short /\ long THEN Div(value, 100) ELSE fee0
      fee2 == IF total_short > total_long /\ ~long THEN Div(value, 100) ELSE fee1
  IN fee2

\* ------------------------------------------------------------------------
\* calculate_position
\* ------------------------------------------------------------------------
gain_of(p, pr) ==
  IF p.long
  THEN IF pr > p.open_price THEN pr - p.open_price ELSE 0
  ELSE IF pr < p.open_price THEN p.open_price - pr ELSE 0

loss_of(p, pr) ==
  IF p.long
  THEN IF pr > p.open_price THEN 0 ELSE p.open_price - pr
  ELSE IF pr < p.open_price THEN 0 ELSE pr - p.open_price

multiplier_divide_first_mutant(p, lev) == lev * Div(p.value, p.open_price)

multiplier_of(p, lev) == Div(lev * p.value, p.open_price)

\* The settlement of a stored position p at price pr (open_price # 0).
position_value(p, pr, lev) ==
  LET gain == gain_of(p, pr)
      loss == loss_of(p, pr)
      multiplier == multiplier_of(p, lev)
  IN IF gain > 0 THEN p.value + (gain * multiplier)
     ELSE IF loss > 0
          THEN IF loss * lev > p.value THEN 0
               ELSE p.value - (loss * multiplier)
          ELSE p.value

\* calculate_position traps on the division by a zero open_price.
calculate_position_traps(user) ==
  has_position(user) /\ positions[user].open_price = 0

calculate_position(user) ==
  IF ~has_position(user) THEN 0
  ELSE position_value(positions[user], price, leverage)

\* ------------------------------------------------------------------------
\* Init: the storage after initialize(asset, leverage, p_usd, oracle)
\* ------------------------------------------------------------------------
Init ==
  /\ positions = [t \in Traders |-> NoPosition]
  /\ positions_set = FALSE
  /\ total_long = 0
  /\ total_short = 0
  /\ history = <<>>
  /\ price = 0
  /\ leverage \in Leverages
  /\ margin_req = InitialMarginReq
  /\ token = "pusd"
  /\ custody = 0
  /\ idle = 0
  /\ calls = 0
  /\ result = Ok(0)
  /\ transfer = NoTransfer

\* ------------------------------------------------------------------------
\* place_trade
\* ------------------------------------------------------------------------
is_zero_value_mutant(value) == value < 0

is_zero_value(value) == value <= 0

opened_position_gross_mutant(value, long) ==
  Position(value, price, 0, long)

opened_position(value, long) ==
  Position(value - calculate_fee(value, long), price, 0, long)

place_trade_guarded_mutant(trader, value, long, auth, funded) ==
  IF ~auth THEN Abort(AuthFailed)
  ELSE IF has_position(trader) THEN Abort(ContractErr(PositionOpen))
  ELSE IF is_zero_value(value) THEN Abort(ContractErr(ZeroValue))
  ELSE IF ~funded THEN Abort(TransferFailed)
  ELSE LET position == opened_position(value, long)
           remaining == position.value
       IN /\ calls < MaxCalls
          /\ calls' = calls + 1
          /\ custody' = custody + value
          /\ total_long' = IF long THEN total_long + remaining ELSE total_long
          /\ total_short' = IF long THEN total_short ELSE total_short + remaining
          /\ positions' = [positions EXCEPT ![trader] = position]
          /\ positions_set' = TRUE
          /\ result' = Ok(0)
          /\ transfer' = [to |-> Contract, amount |-> value]
          /\ UNCHANGED <<history, price, leverage, margin_req, token, idle>>

\* auth: the invocation carries the trader's authorization.
\* funded: the trader's balance and allowance cover the transfer_from.
place_trade(trader, value, long, auth, funded) ==
  IF ~auth THEN Abort(AuthFailed)
  ELSE IF is_zero_value(value) THEN Abort(ContractErr(ZeroValue))
  ELSE IF ~funded THEN Abort(TransferFailed)
  ELSE LET position == opened_position(value, long)
           remaining == position.value
       IN /\ calls < MaxCalls
          /\ calls' = calls + 1
          /\ custody' = custody + value
          /\ total_long' = IF long THEN total_long + remaining ELSE total_long
          /\ total_short' = IF long THEN total_short ELSE total_short + remaining
          /\ positions' = [positions EXCEPT ![trader] = position]
          /\ positions_set' = TRUE
          /\ result' = Ok(0)
          /\ transfer' = [to |-> Contract, amount |-> value]
          /\ UNCHANGED <<history, price, leverage, margin_req, token, idle>>

\* ------------------------------------------------------------------------
\* close_trade
\* ------------------------------------------------------------------------
closed_record(position) == [position EXCEPT !.close_price = price]

archive_settlement_mutant(user) ==
  LET position == positions[user]
      settled == calculate_position(user)
  IN /\ history' = Append(history, closed_record(position))
     /\ total_long' = IF position.long THEN total_long - settled
                      ELSE total_long
     /\ total_short' = IF position.long THEN total_short
                       ELSE total_short - settled
     /\ positions' = [positions EXCEPT ![user] = NoPosition]
     /\ UNCHANGED <<positions_set, price, leverage, margin_req, token, idle>>

\* Archive, update the totals and remove: shared by close and liquidate.
archive_and_remove(user) ==
  LET position == positions[user]
  IN /\ history' = Append(history, closed_record(position))
     /\ total_long' = IF position.long THEN total_long - position.value
                      ELSE total_long
     /\ total_short' = IF position.long THEN total_short
                       ELSE total_short - position.value
     /\ positions' = [positions EXCEPT ![user] = NoPosition]
     /\ UNCHANGED <<positions_set, price, leverage, margin_req, token, idle>>

lookup_lenient_mutant(user) ==
  IF ~positions_set THEN ContractErr(PositionNotOpen)
  ELSE Ok(0)

\* What the lookup of the position yields before any write.
lookup(user) ==
  IF ~positions_set THEN ContractErr(PositionNotOpen)
  ELSE IF ~has_position(user) THEN Trap
  ELSE Ok(0)

\* A payout the token refuses traps the invocation: the host rolls back the
\* archive, the totals and the removal written before it.
payout_failed_keeps_writes_mutant(trader) ==
  /\ archive_and_remove(trader)
  /\ custody' = custody
  /\ calls' = calls
  /\ transfer' = NoTransfer
  /\ result' = TransferFailed

payout_failed(trader) == Abort(TransferFailed)

payout_mutant(trader) == positions[trader].value

payout(trader) == calculate_position(trader)

close_trade_unchecked_mutant(trader, auth) ==
  IF lookup(trader).kind # "ok" THEN Abort(lookup(trader))
  ELSE IF calculate_position_traps(trader) THEN Abort(Trap)
  ELSE LET ret_bal == payout(trader)
       IN IF ~transfer_ok(ret_bal) THEN payout_failed(trader)
          ELSE /\ calls < MaxCalls
               /\ calls' = calls + 1
               /\ archive_and_remove(trader)
               /\ custody' = custody - ret_bal
               /\ transfer' = [to |-> trader, amount |-> ret_bal]
               /\ result' = Ok(0)

close_trade(trader, auth) ==
  IF ~auth THEN Abort(AuthFailed)
  ELSE IF lookup(trader).kind # "ok" THEN Abort(lookup(trader))
  ELSE IF calculate_position_traps(trader) THEN Abort(Trap)
  ELSE LET ret_bal == payout(trader)
       IN IF ~transfer_ok(ret_bal) THEN payout_failed(trader)
          ELSE /\ calls < MaxCalls
               /\ calls' = calls + 1
               /\ archive_and_remove(trader)
               /\ custody' = custody - ret_bal
               /\ transfer' = [to |-> trader, amount |-> ret_bal]
               /\ result' = Ok(0)

\* ------------------------------------------------------------------------
\* liquidate_position
\* ------------------------------------------------------------------------
margin_of(user) == Div(calculate_position(user) * 10000, positions[user].value)

above_margin_raw_mutant(user) == calculate_position(user) >= margin_req

above_margin(user) == margin_of(user) >= margin_req

reward_full_mutant(ret_bal) == ret_bal

reward_of(ret_bal) == Div(ret_bal, 3)

liquidate_position(liquidator, user, auth) ==
  IF ~auth THEN Abort(AuthFailed)
  ELSE IF lookup(user).kind # "ok" THEN Abort(lookup(user))
  ELSE IF calculate_position_traps(user) THEN Abort(Trap)
  ELSE IF positions[user].value = 0 THEN Abort(Trap)
  ELSE IF above_margin(user) THEN Abort(ContractErr(AboveMargin))
  ELSE LET ret_bal == calculate_position(user)
           reward == reward_of(ret_bal)
       IN IF reward > 0 /\ ~transfer_ok(reward) THEN Abort(TransferFailed)
          ELSE /\ calls < MaxCalls
               /\ calls' = calls + 1
               /\ archive_and_remove(user)
               /\ custody' = IF reward > 0 THEN custody - reward ELSE custody
               /\ transfer' = IF reward > 0
                              THEN [to |-> liquidator, amount |-> reward]
                              ELSE NoTransfer
               /\ result' = Ok(0)

\* ------------------------------------------------------------------------
\* Read-only entry points and the oracle
\* ------------------------------------------------------------------------
call_calculate_fee(value, long) ==
  /\ result' = Ok(calculate_fee(value, long))
  /\ transfer' = NoTransfer
  /\ UNCHANGED <<storage, price, custody, idle, calls>>

call_calculate_position_writeback_mutant(user) ==
  IF calculate_position_traps(user) THEN Abort(Trap)
  ELSE /\ result' = Ok(calculate_position(user))
       /\ transfer' = NoTransfer
       /\ positions' = IF has_position(user)
                       THEN [positions EXCEPT
                               ![user].value = calculate_position(user)]
                       ELSE positions
       /\ UNCHANGED <<positions_set, total_long, total_short, history,
                      leverage, margin_req, token, price, custody, idle,
                      calls>>

call_calculate_position(user) ==
  IF calculate_position_traps(user) THEN Abort(Trap)
  ELSE /\ result' = Ok(calculate_position(user))
       /\ transfer' = NoTransfer
       /\ UNCHANGED <<storage, price, custody, idle, calls>>

\* The oracle writes a new PRICE.  One feed quotes one market: a new price
\* is within a factor MaxMove of the previous one.
set_price(p) ==
  /\ price = 0 \/ (p <= MaxMove * price /\ price <= MaxMove * p)
  /\ price' = p
  /\ UNCHANGED <<storage, custody, idle, calls, result, transfer>>

\* ------------------------------------------------------------------------
\* initialize, called again: it has neither authorization nor run-once
\* guard.  It overwrites LEVERAGE and PUSD with its arguments, MARGIN_REQ,
\* both totals and the history with their initial values, and leaves the
\* positions and the price alone.  With another token configured the
\* contract settles in the balance it holds in that token.
\* ------------------------------------------------------------------------
initialize(lev, p_usd) ==
  /\ calls < MaxCalls
  /\ leverage' = lev
  /\ token' = p_usd
  /\ margin_req' = InitialMarginReq
  /\ total_long' = 0
  /\ total_short' = 0
  /\ history' = <<>>
  /\ custody' = (IF p_usd = token THEN custody ELSE idle)
  /\ idle' = (IF p_usd = token THEN idle ELSE custody)
  /\ calls' = calls + 1
  /\ result' = Ok(0)
  /\ transfer' = NoTransfer
  /\ UNCHANGED <<positions, positions_set, price>>

\* ------------------------------------------------------------------------
\* Specification
\* ------------------------------------------------------------------------
\* An invocation that lacks the authorization, or whose collateral pull the
\* token refuses, is rejected whatever its other arguments are: one call of
\* each kind per trader stands for them.
PlaceTrade ==
  \/ \E t \in Traders, v \in Values, l \in BOOLEAN :
       place_trade(t, v, l, TRUE, TRUE)
  \/ \E t \in Traders : place_trade(t, MaxValue, TRUE, TRUE, FALSE)
  \/ \E t \in Traders : place_trade(t, MaxValue, TRUE, FALSE, TRUE)

CloseTrade == \E t \in Traders, a \in BOOLEAN : close_trade(t, a)

LiquidatePosition ==
  \/ \E l \in Principals, t \in Traders : liquidate_position(l, t, TRUE)
  \/ \E t \in Traders : liquidate_position("l1", t, FALSE)

CalculateFee == \E v \in Values, l \in BOOLEAN : call_calculate_fee(v, l)

CalculatePosition == \E t \in Traders : call_calculate_position(t)

SetPrice == \E p \in Prices : set_price(p)

\* initialize called again with the configured leverage and either token
Initialize == \E lev \in Leverages, p_usd \in Tokens : initialize(lev, p_usd)

\* initialize called again with any leverage and either token
Reconfigure == \E lev \in InitLeverages, p_usd \in Tokens : initialize(lev, p_usd)

Next ==
  \/ PlaceTrade
  \/ CloseTrade
  \/ LiquidatePosition
  \/ CalculateFee
  \/ CalculatePosition
  \/ SetPrice
  \/ Initialize

Spec == Init /\ [][Next]_vars

TypeOK ==
  /\ positions_set \in BOOLEAN
  /\ total_long \in Int
  /\ total_short \in Int
  /\ Len(history) <= MaxCalls
  /\ price \in Prices \cup {0}
  /\ custody \in 0..(MaxCalls * MaxValue)
  /\ token \in Tokens
  /\ calls \in 0..MaxCalls

\* ------------------------------------------------------------------------
\* Settlement specification: one trader holds a freshly opened position
\* (the state right after the first place_trade at the oracle price), the
\* oracle then quotes any price and calculate_position is called.
\* ------------------------------------------------------------------------
InitSettle ==
  \E v \in SettleValues, o \in SettleOpenPrices, l \in BOOLEAN :
    /\ positions = [t \in Traders |->
                      IF t = "t1" THEN Position(v, o, 0, l) ELSE NoPosition]
    /\ positions_set = TRUE
    /\ total_long = (IF l THEN v ELSE 0)
    /\ total_short = (IF l THEN 0 ELSE v)
    /\ history = <<>>
    /\ price = o
    /\ leverage \in SettleLeverages
    /\ margin_req = InitialMarginReq
    /\ token = "pusd"
    /\ custody = v
    /\ idle = 0
    /\ calls = 0
    /\ result = Ok(0)
    /\ transfer = [to |-> Contract, amount |-> v]

oracle_update(p) ==
  /\ price' = p
  /\ UNCHANGED <<storage, custody, idle, calls, result, transfer>>

OracleUpdate == \E p \in SettlePrices : oracle_update(p)

NextSettle ==
  \/ OracleUpdate
  \/ CalculatePosition

SpecSettle == InitSettle /\ [][NextSettle]_vars

\* ------------------------------------------------------------------------
\* Small-trade specification: one trader has opened MaxValue on one side
\* (the state right after the first place_trade), so that the next trade
\* on that side pays the fee; traders without a position then open small
\* amounts, and positions are closed and liquidated as in Spec.
\* ------------------------------------------------------------------------
InitOpen ==
  \E o \in Prices, l \in BOOLEAN :
    /\ positions = [t \in Traders |->
                      IF t = "t2" THEN Position(MaxValue, o, 0, l) ELSE NoPosition]
    /\ positions_set = TRUE
    /\ total_long = (IF l THEN MaxValue ELSE 0)
    /\ total_short = (IF l THEN 0 ELSE MaxValue)
    /\ history = <<>>
    /\ price = o
    /\ leverage \in Leverages
    /\ margin_req = InitialMarginReq
    /\ token = "pusd"
    /\ custody = MaxValue
    /\ idle = 0
    /\ calls = 0
    /\ result = Ok(0)
    /\ transfer = [to |-> Contract, amount |-> MaxValue]

OpenSmall ==
  \E v \in OpenValues, l \in BOOLEAN :
    /\ ~has_position("t1")
    /\ history = <<>>
    /\ place_trade("t1", v, l, TRUE, TRUE)

NextOpen ==
  \/ OpenSmall
  \/ CloseTrade
  \/ LiquidatePosition
  \/ SetPrice
  \/ Initialize

SpecOpen == InitOpen /\ [][NextOpen]_vars

\* ------------------------------------------------------------------------
\* Re-initialization specification: initialize is a public function without
\* authorization or run-once guard, so it can be invoked again in any
\* state.  It rewrites the configuration, both totals and the history and
\* leaves the positions and the price alone.  The specification starts, like
\* the small-trade one, right after a first trade.
\* ------------------------------------------------------------------------
NextReinit ==
  \/ Reconfigure
  \/ CloseTrade
  \/ LiquidatePosition
  \/ SetPrice

SpecReinit == InitOpen /\ [][NextReinit]_vars

\* ========================================================================
\* Properties
\* ========================================================================
RECURSIVE SumValues(_, _)
SumValues(S, long) ==
  IF S = {} THEN 0
  ELSE LET t == CHOOSE x \in S : TRUE
       IN (IF has_position(t) /\ positions[t].long = long
           THEN positions[t].value ELSE 0) + SumValues(S \ {t}, long)

\* The fee of section 4.1: 1% on the side that is already strictly larger.
ExpectedFee(value, long) ==
  IF (long /\ total_long > total_short) \/ (~long /\ total_short > total_long)
  THEN Div(value, 100)
  ELSE 0

IsErr(outcome, code) == outcome.kind = "contract_error" /\ outcome.code = code

\* The bookkeeping shared by close and liquidate, stated on a step.
Archived(t) ==
  LET p == positions[t]
  IN /\ has_position(t)
     /\ ~positions'[t].open
     /\ \A u \in Traders \ {t} : positions'[u] = positions[u]
     /\ history' = Append(history, Position(p.value, p.open_price, price, p.long))
     /\ total_long' = (IF p.long THEN total_long - p.value ELSE total_long)
     /\ total_short' = (IF p.long THEN total_short ELSE total_short - p.value)

\* C1: in every reachable state total_long is the sum of value over the
\* stored long positions and total_short the sum over the stored shorts.
C1_TotalsMatchPositions ==
  /\ total_long = SumValues(Traders, TRUE)
  /\ total_short = SumValues(Traders, FALSE)

\* C2: with leverage 10, a position of value 1000 opened at 50000 settles
\* to 2000 after a 10% favourable move (long at 55000, short at 45000).
C2_FavourableMoveSettlesTo2000 ==
  \A t \in Traders :
    LET p == positions[t]
    IN (/\ has_position(t)
        /\ p.value = 1000
        /\ p.open_price = 50000
        /\ leverage = 10
        /\ (p.long /\ price = 55000) \/ (~p.long /\ price = 45000))
       => calculate_position(t) = 2000

\* C3: a long of value 1000 opened at 50000 with leverage 10 and margin
\* requirement 300 cannot be liquidated at price 49000: the call fails
\* with AboveMargin and the position stays stored.
C3_HealthyPositionNotLiquidated ==
  [][\A l \in Principals, t \in Traders :
       (/\ has_position(t)
        /\ positions[t].long
        /\ positions[t].value = 1000
        /\ positions[t].open_price = 50000
        /\ leverage = 10
        /\ margin_req = 300
        /\ price = 49000
        /\ liquidate_position(l, t, TRUE))
       => (IsErr(result', AboveMargin) /\ positions'[t] = positions[t])]_vars

\* C4: close_trade and liquidate_position for a trader with no stored
\* position fail with PositionNotOpen and change nothing.
C4_MissingPositionIsPositionNotOpen ==
  [][\A l \in Principals, t \in Traders :
       (~has_position(t) /\ (close_trade(t, TRUE) \/ liquidate_position(l, t, TRUE)))
       => (IsErr(result', PositionNotOpen) /\ UNCHANGED <<storage, custody>>)]_vars

\* C5: place_trade with value <= 0 fails with ZeroValue, requests no
\* transfer and leaves positions, totals and history unchanged.
C5_ZeroValueRejected ==
  [][\/ /\ IsErr(result', ZeroValue)
        /\ transfer' = NoTransfer
        /\ UNCHANGED <<storage, custody>>
     \/ \A v \in {x \in Values : x <= 0} :
          \A t \in Traders, l \in BOOLEAN, f \in BOOLEAN :
            ~place_trade(t, v, l, TRUE, f)]_vars

C5_Witness == IsErr(result, ZeroValue) /\ positions_set

\* C6: calculate_fee returns value/100 exactly when the trade is on the
\* strictly larger side, and 0 otherwise (balanced market included).
C6_FeeOnlyOnLargerSide ==
  [][\A v \in Values, l \in BOOLEAN :
       call_calculate_fee(v, l)
       => (result'.kind = "ok" /\ result'.ret = ExpectedFee(v, l))]_vars

C6_Witness ==
  /\ result.kind = "ok"
  /\ result.ret = 10
  /\ transfer = NoTransfer
  /\ total_long # total_short

\* C7: a successful place_trade stores {value - fee, oracle price, 0, long}
\* for the trader, adds value - fee to the chosen side's total and leaves
\* the other total and history unchanged.
C7_PlaceTradeStoresNetPosition ==
  [][\A t \in Traders, v \in Values, l \in BOOLEAN, f \in BOOLEAN :
       (result'.kind = "ok" /\ place_trade(t, v, l, TRUE, f))
       => LET fee == ExpectedFee(v, l)
          IN /\ positions'[t] = Position(v - fee, price, 0, l)
             /\ total_long' = (IF l THEN total_long + (v - fee) ELSE total_long)
             /\ total_short' = (IF l THEN total_short ELSE total_short + (v - fee))
             /\ history' = history]_vars

C7_Witness ==
  /\ result.kind = "ok"
  /\ transfer = [to |-> Contract, amount |-> 1000]
  /\ \E t \in Traders : has_position(t) /\ positions[t].value = 990

\* C8: a successful close_trade removes the position, appends one record
\* (the position with close_price = oracle price), decrements only the
\* position's side by the original value and pays the trader exactly
\* calculate_position.
C8_CloseTradeArchivesAndPays ==
  [][\A t \in Traders :
       (result'.kind = "ok" /\ close_trade(t, TRUE))
       => (/\ Archived(t)
           /\ transfer' = [to |-> t, amount |-> calculate_position(t)]
           /\ custody' = custody - calculate_position(t))]_vars

C8_Witness ==
  /\ result.kind = "ok"
  /\ transfer.to \in Traders
  /\ Len(history) > 0
  /\ transfer.amount > 0
  /\ transfer.amount # history[Len(history)].value

\* C9: liquidate_position on a stored position fails with AboveMargin
\* exactly when settlement * 10000 / value >= margin_requirement, and on
\* that failure nothing is mutated and nothing is transferred.
C9_AboveMarginIffRatioAtLeastRequirement ==
  [][\A t \in {u \in Traders : has_position(u) /\ positions[u].open_price # 0} :
     \A l \in Principals :
       liquidate_position(l, t, TRUE)
       => LET p == positions[t]
              settlement == position_value(p, price, leverage)
          IN /\ IsErr(result', AboveMargin)
                  <=> (Div(settlement * 10000, p.value) >= margin_req)
             /\ IsErr(result', AboveMargin)
                  => (transfer' = NoTransfer /\ UNCHANGED <<storage, custody>>)]_vars

C9_Witness ==
  /\ IsErr(result, AboveMargin)
  /\ \E t \in Traders :
       /\ has_position(t)
       /\ positions[t].open_price # 0
       /\ calculate_position(t) < positions[t].value
       /\ Div(calculate_position(t) * 10000, positions[t].value) = margin_req

\* The transfer a successful liquidation makes: settlement/3 to the
\* liquidator when that is positive, none otherwise.
RewardPaid(l, t) ==
  LET reward == Div(calculate_position(t), 3)
  IN /\ transfer' = (IF reward > 0 THEN [to |-> l, amount |-> reward]
                     ELSE NoTransfer)
     /\ custody' = (IF reward > 0 THEN custody - reward ELSE custody)

\* C10 (as stated): a successful liquidation does the bookkeeping of close,
\* transfers only settlement/3 to the liquidator when positive, and nothing
\* is ever paid to the liquidated trader.
C10_NothingPaidToLiquidatedTrader ==
  [][\A l \in Principals, t \in Traders :
       (result'.kind = "ok" /\ liquidate_position(l, t, TRUE))
       => (/\ Archived(t)
           /\ RewardPaid(l, t)
           /\ transfer'.to # t)]_vars

\* C10 (amended): as above, and nothing is paid to the liquidated trader
\* unless that trader is the liquidator.
C10_OnlyRewardToLiquidator ==
  [][\A l \in Principals, t \in Traders :
       (result'.kind = "ok" /\ liquidate_position(l, t, TRUE))
       => (/\ Archived(t)
           /\ RewardPaid(l, t)
           /\ (l # t => transfer'.to # t))]_vars

C10_Witness ==
  /\ result.kind = "ok"
  /\ transfer.to = "l1"
  /\ transfer.amount > 0
  /\ Len(history) > 0
  /\ transfer.amount < 300

\* C11: a failed token transfer (collateral pull, payout or reward) aborts
\* the invocation and leaves positions, totals and history as they were;
\* a payout the contract cannot make does fail.
C11_TransferFailureRollsBack ==
  [][\A t \in Traders :
       /\ (/\ result'.kind = "transfer"
           /\ \/ close_trade(t, TRUE)
              \/ \E l \in Principals : liquidate_position(l, t, TRUE)
              \/ \E v \in Values, lg \in BOOLEAN : place_trade(t, v, lg, TRUE, FALSE))
          => (transfer' = NoTransfer /\ UNCHANGED <<storage, custody>>)
       /\ (/\ has_position(t)
           /\ positions[t].open_price # 0
           /\ ~transfer_ok(calculate_position(t))
           /\ close_trade(t, TRUE))
          => (result' = TransferFailed /\ UNCHANGED <<storage, custody>>)]_vars

C11_Witness ==
  /\ result = TransferFailed
  /\ \E t \in Traders :
       /\ has_position(t)
       /\ positions[t].open_price # 0
       /\ calculate_position(t) > custody

\* C12: an invocation without the required authorization (the trader's for
\* place_trade and close_trade, the liquidator's for liquidate_position)
\* aborts before anything else: whatever its arguments, it changes no
\* position, total or history and makes no token transfer.
C12_UnauthorizedCallAborts ==
  [][\A t \in Traders :
       (\/ close_trade(t, FALSE)
        \/ \E l \in Principals : liquidate_position(l, t, FALSE)
        \/ \E v \in Values, lg \in BOOLEAN, f \in BOOLEAN :
             place_trade(t, v, lg, FALSE, f))
       => (/\ result' = AuthFailed
           /\ transfer' = NoTransfer
           /\ UNCHANGED <<storage, custody>>)]_vars

C12_Witness ==
  /\ result = AuthFailed
  /\ \E t \in Traders : has_position(t)
  /\ \E t \in Traders : ~has_position(t)

\* The reference settlement of section 4.3 for a position (value, open,
\* long) at price pr with leverage lev: m = (lev * value) / open, the
\* favourable difference is the gain and the adverse one the loss.
RefSettlement(value, open, long, pr, lev) ==
  LET m == Div(lev * value, open)
      favourable == IF long THEN pr - open ELSE open - pr
      gain == IF favourable > 0 THEN favourable ELSE 0
      loss == IF favourable < 0 THEN -favourable ELSE 0
  IN IF gain > 0 THEN value + gain * m
     ELSE IF loss > 0
          THEN (IF loss * lev > value THEN 0 ELSE value - loss * m)
          ELSE value

\* C13: calculate_position(user) returns 0 when user has no stored
\* position and the reference settlement of the stored position otherwise.
C13_CalculatePositionIsReference ==
  [][\A t \in Traders :
       call_calculate_position(t)
       => (/\ result'.kind = "ok"
           /\ result'.ret =
                (IF ~has_position(t) THEN 0
                 ELSE RefSettlement(positions[t].value, positions[t].open_price,
                                    positions[t].long, price, leverage)))]_vars

C13_Witness ==
  /\ result.kind = "ok"
  /\ has_position("t1")
  /\ result.ret = calculate_position("t1")
  /\ result.ret > positions["t1"].value
  /\ multiplier_of(positions["t1"], leverage) > 0
  /\ multiplier_of(positions["t1"], leverage) * positions["t1"].open_price
       < leverage * positions["t1"].value

\* C14: a successful close or liquidation lowers total_long + total_short
\* by the position's original stored value (not by the settlement), and
\* an open from no position raised it by that same stored value, so the
\* pair contributes net zero whatever the price path.
C14_AggregateConservation ==
  [][\A t \in Traders :
       /\ (/\ result'.kind = "ok"
           /\ \/ close_trade(t, TRUE)
              \/ \E l \in Principals : liquidate_position(l, t, TRUE))
          => (total_long' + total_short'
                = total_long + total_short - positions[t].value)
       /\ (/\ result'.kind = "ok"
           /\ ~has_position(t)
           /\ \E v \in Values, lg \in BOOLEAN : place_trade(t, v, lg, TRUE, TRUE))
          => (total_long' + total_short'
                = total_long + total_short + positions'[t].value)]_vars

C14_Witness ==
  /\ result.kind = "ok"
  /\ Len(history) = 1
  /\ transfer.to # Contract
  /\ total_long + total_short = 0
  /\ \A t \in Traders : ~has_position(t)
  /\ history[1].close_price # history[1].open_price
  /\ transfer.amount # history[1].value

\* C15: every stored position has value > 0, also when the fee is charged
\* on a small amount, so liquidate_position never divides by zero.
C15_StoredValuePositive ==
  \A t \in Traders : has_position(t) => positions[t].value > 0

C15_Witness ==
  \E t \in Traders :
    /\ has_position(t)
    /\ positions[t].value = 99
    /\ transfer = [to |-> Contract, amount |-> 100]

\* C16: the settlement value of a stored position with open_price > 0 is
\* never negative, a loss that reaches the collateral resolving to 0.
C16_SettlementNeverNegative ==
  \A t \in Traders :
    (has_position(t) /\ positions[t].open_price > 0 /\ price >= 0)
      => calculate_position(t) >= 0

\* C17: place_trade never fails with PositionOpen; for a trader who already
\* has a position and value > 0 it succeeds, replaces the stored position,
\* adds the new remaining value to the chosen side's total and subtracts
\* the old value from no total, appends nothing to history and pays
\* nothing back.
C17_PlaceTradeOverwrites ==
  [][/\ result' # ContractErr(PositionOpen)
     /\ \A t \in Traders, v \in Values, lg \in BOOLEAN :
          (has_position(t) /\ v > 0 /\ place_trade(t, v, lg, TRUE, TRUE))
            => /\ result' = Ok(0)
               /\ positions'[t] = Position(v - calculate_fee(v, lg), price, 0, lg)
               /\ total_long' =
                    (IF lg THEN total_long + positions'[t].value ELSE total_long)
               /\ total_short' =
                    (IF lg THEN total_short ELSE total_short + positions'[t].value)
               /\ history' = history
               /\ custody' = custody + v
               /\ transfer' = [to |-> Contract, amount |-> v]]_vars

C17_Witness ==
  /\ result = Ok(0)
  /\ transfer.to = Contract
  /\ history = <<>>
  /\ \E t \in Traders : ~has_position(t)
  /\ total_long + total_short > SumValues(Traders, TRUE) + SumValues(Traders, FALSE)

\* C18: history is append-only across every sequence of contract calls:
\* each step leaves history unchanged or, on a successful close_trade or
\* liquidate_position, appends exactly one record to it.
C18_HistoryAppendOnly ==
  [][\/ history' = history
     \/ /\ result' = Ok(0)
        /\ \E t \in Traders :
             /\ has_position(t)
             /\ ~has_position(t)'
             /\ history' = Append(history, closed_record(positions[t]))]_vars

\* C19: a position opened while no price is set is stored with open_price
\* 0; for such a position calculate_position, close_trade and
\* liquidate_position trap at every price and write nothing; the position
\* changes only when its trader overwrites it by a successful place_trade,
\* and until then no step takes its value out of its side's total.
C19_ZeroOpenPriceTraps ==
  [][\A t \in Traders :
       /\ (/\ price = 0
           /\ result'.kind = "ok"
           /\ \E v \in Values, lg \in BOOLEAN : place_trade(t, v, lg, TRUE, TRUE))
          => (has_position(t)' /\ positions'[t].open_price = 0)
       /\ (has_position(t) /\ positions[t].open_price = 0)
          => /\ (\/ call_calculate_position(t)
                 \/ close_trade(t, TRUE)
                 \/ \E l \in Principals : liquidate_position(l, t, TRUE))
                => /\ result' = Trap
                   /\ transfer' = NoTransfer
                   /\ UNCHANGED <<storage, custody>>
             /\ positions'[t] # positions[t]
                => /\ result' = Ok(0)
                   /\ has_position(t)'
                   /\ transfer'.to = Contract
                   /\ custody' = custody + transfer'.amount
             /\ positions'[t] = positions[t]
                => \/ IF positions[t].long THEN total_long' >= total_long
                      ELSE total_short' >= total_short
                   \/ \E u \in Traders \ {t} :
                        has_position(u) /\ ~has_position(u)']_vars

\* C20: close and liquidate are terminal for a stored position: a
\* successful close_trade or liquidate_position archives a position the
\* trader had and leaves the trader without one; while the trader has no
\* position every close_trade and liquidate_position for that trader fails,
\* adds no history record and pays nothing; only a successful place_trade
\* gives the trader a position again.
C20_CloseAndLiquidateAreTerminal ==
  [][\A t \in Traders :
       /\ (/\ result'.kind = "ok"
           /\ \/ close_trade(t, TRUE)
              \/ \E l \in Principals : liquidate_position(l, t, TRUE))
          => /\ has_position(t)
             /\ ~has_position(t)'
             /\ history' = Append(history, closed_record(positions[t]))
       /\ (/\ ~has_position(t)
           /\ \/ \E a \in BOOLEAN : close_trade(t, a)
              \/ \E l \in Principals, a \in BOOLEAN : liquidate_position(l, t, a))
          => /\ result'.kind # "ok"
             /\ transfer' = NoTransfer
             /\ UNCHANGED <<storage, custody>>
       /\ (~has_position(t) /\ has_position(t)')
          => /\ result' = Ok(0)
             /\ transfer'.to = Contract
             /\ history' = history]_vars

C20_Witness ==
  /\ result = Trap
  /\ Len(history) = 1
  /\ \A t \in Traders : ~has_position(t)
  /\ total_long + total_short = 0
  /\ custody = 0

\* C21: configuration is one-time: after initialize has run, no call
\* changes leverage or margin_requirement, empties a non-empty history or
\* changes a total other than by opening, closing or liquidating a
\* position.
C21_ConfigurationIsOneTime ==
  [][/\ leverage' = leverage
     /\ margin_req' = margin_req
     /\ (history # <<>> => history' # <<>>)
     /\ (total_long' # total_long \/ total_short' # total_short)
        => (positions' # positions \/ transfer'.to = Contract)]_vars

\* C22: stored positions change only by being created or removed: a price
\* change, calculate_position and calculate_fee leave every stored
\* position, both totals and history unchanged, and place_trade,
\* close_trade and liquidate_position acting on one trader leave every
\* other trader's stored position unchanged.
C22_PositionsOnlyCreatedOrRemoved ==
  [][/\ \/ UNCHANGED <<positions, total_long, total_short, history>>
        \/ ~(\/ \E p \in Prices : set_price(p)
             \/ \E t \in Traders : call_calculate_position(t)
             \/ \E v \in Values, lg \in BOOLEAN : call_calculate_fee(v, lg))
     /\ \A t \in Traders :
          /\ \/ \A u \in Traders \ {t} : positions'[u] = positions[u]
             \/ ~(\/ \E v \in Values, lg, a, f \in BOOLEAN :
                       place_trade(t, v, lg, a, f)
                  \/ \E a \in BOOLEAN : close_trade(t, a)
                  \/ \E l \in Principals, a \in BOOLEAN :
                       liquidate_position(l, t, a))
          /\ positions'[t] # positions[t]
             => \/ /\ has_position(t)'
                   /\ positions'[t].open_price = price
                   /\ transfer'.to = Contract
                \/ /\ has_position(t)
                   /\ ~has_position(t)'
                   /\ history' = Append(history, closed_record(positions[t]))]_vars

C22_Witness ==
  /\ result.kind = "ok"
  /\ transfer = NoTransfer
  /\ \A u \in Traders : has_position(u)
  /\ \E t \in Traders :
       /\ positions[t].open_price # 0
       /\ result.ret = calculate_position(t)
       /\ result.ret > positions[t].value

\* C23: in every reachable state both totals are >= 0 and each is at
\* least the sum of value over the stored positions of its side.
C23_TotalsCoverPositions ==
  /\ total_long >= 0
  /\ total_short >= 0
  /\ total_long >= SumValues(Traders, TRUE)
  /\ total_short >= SumValues(Traders, FALSE)

\* C24: solvency: the collateral in custody is at least the settlement
\* value of each stored position with open_price > 0.
C24_CustodyCoversSettlement ==
  \A t \in Traders :
    (has_position(t) /\ positions[t].open_price > 0)
      => custody >= calculate_position(t)
====
